---- MODULE Spec2Model ----
(***************************************************************************)
(* pkpass-to-pdf: the CLI main (src/cli.ts), the archive parser            *)
(* parsePkpass (pkpass.ts) and the renderer generatePdf (pdf.ts) as one    *)
(* sequential state machine.  One run = one invocation of the CLI on one   *)
(* environment (argv, prompt answer, file system, archive, sink).          *)
(***************************************************************************)
EXTENDS Integers, Sequences, FiniteSets, TLC

VARIABLES
    env,        \* the world of one run: argv, prompt answer, file system, archive, sink
    pc,         \* the statement main is at
    trace,      \* the steps executed so far, in order
    inputPath,  \* main's inputPath
    parse,      \* parsePkpass's locals: zip, passJson, style, styleContent, images
    passData,   \* main's passData: the ParsedPass returned by parsePkpass, if any
    colors,     \* generatePdf's bgColor, fgColor, labelColor
    y,          \* generatePdf's cursor
    pages,      \* number of pages added to the document
    log,        \* the drawing calls made so far
    qrCalls,    \* number of calls of the matrix-barcode encoder
    stepY,      \* per executed section of generatePdf: the cursor before and after
    console,    \* lines printed
    err,        \* the error caught by main, if any
    exitCode,   \* the process exit code, once exited
    written     \* the document written to the output path, if any

vars == <<env, pc, trace, inputPath, parse, passData, colors, y, pages, log, qrCalls,
          stepY, console, err, exitCode, written>>

----------------------------------------------------------------------------
(* Optional values (TypeScript `T | undefined`): <<>> is absent, <<v>> is v *)

None == <<>>
Some(v) == <<v>>
IsSome(o) == o # <<>>
Get(o) == o[1]

MinOf(a, b) == IF a < b THEN a ELSE b
SetMin(S) == CHOOSE m \in S : \A n \in S : m <= n

RECURSIVE SumSeq(_)
SumSeq(s) == IF s = <<>> THEN 0 ELSE s[1] + SumSeq(Tail(s))

----------------------------------------------------------------------------
(* Strings that the code inspects character by character (colors, currency *)
(* codes) are sequences of one-character strings.                          *)

Digits == {"0", "1", "2", "3", "4", "5", "6", "7", "8", "9"}
HexLower == {"a", "b", "c", "d", "e", "f"}
HexUpper == {"A", "B", "C", "D", "E", "F"}
HexDigits == Digits \cup HexLower \cup HexUpper
Whitespace == {" "}
Letters == HexLower \cup HexUpper \cup {"g", "r", "G", "R", "U", "S", "O", "X", "Y", "Z"}

CharAt(s, i) == IF i >= 1 /\ i <= Len(s) THEN s[i] ELSE ""

DigitVal(c) ==
    CASE c = "0" -> 0 [] c = "1" -> 1 [] c = "2" -> 2 [] c = "3" -> 3
      [] c = "4" -> 4 [] c = "5" -> 5 [] c = "6" -> 6 [] c = "7" -> 7
      [] c = "8" -> 8 [] c = "9" -> 9
      [] c \in {"a", "A"} -> 10 [] c \in {"b", "B"} -> 11
      [] c \in {"c", "C"} -> 12 [] c \in {"d", "D"} -> 13
      [] c \in {"e", "E"} -> 14 [] c \in {"f", "F"} -> 15

(* NaN, the result of parseInt on a string with no leading digit *)
NaN == 0 - 1

(* parseInt(s, radix) on a string made of digits of that radix only *)
RECURSIVE ParseIntAcc(_, _, _)
ParseIntAcc(s, radix, acc) ==
    IF s = <<>> THEN acc
    ELSE ParseIntAcc(Tail(s), radix, acc * radix + DigitVal(Head(s)))
parseInt(s, radix) == IF s = <<>> THEN NaN ELSE ParseIntAcc(s, radix, 0)

(* s.substring(a, b) with 0-based a and exclusive end b, clamped to the length *)
Substring(s, a, b) == SubSeq(s, MinOf(a, Len(s)) + 1, MinOf(b, Len(s)))

(* the first index >= i whose character is not in Class: a greedy X*      *)
RECURSIVE SkipWhile(_, _, _)
SkipWhile(s, i, Class) ==
    IF i <= Len(s) /\ s[i] \in Class THEN SkipWhile(s, i + 1, Class) ELSE i

----------------------------------------------------------------------------
(* Page geometry and default colors (pdf.ts)                               *)

PAGE_WIDTH == 400
PAGE_HEIGHT == 700
MARGIN == 30
CONTENT_WIDTH == PAGE_WIDTH - 2 * MARGIN

(* Color components are held in units of 1/5100 so that both n/255 and the *)
(* decimal defaults are exact: 1.0 is 5100, n/255 is 20n, 0.95 is 4845.    *)
One == 255 * 20
Over255(n) == IF n = NaN THEN NaN ELSE n * 20

(* pdf-lib's rgb(): assertRange(component, 0, 1) on each component throws  *)
(* when the component is below 0 or above 1; NaN passes both comparisons.  *)
InUnitRange(v) == v = NaN \/ (0 <= v /\ v <= One)
rgb(r, g, b) ==
    IF InUnitRange(r) /\ InUnitRange(g) /\ InUnitRange(b)
    THEN [type |-> "RGB", red |-> r, green |-> g, blue |-> b]
    ELSE [type |-> "Error", red |-> r, green |-> g, blue |-> b]

DEFAULT_BG_COLOR == rgb(4845, 4845, 4845)
DEFAULT_FG_COLOR == rgb(510, 510, 510)
DEFAULT_LABEL_COLOR == rgb(2040, 2040, 2040)

(* /rgb\s*\(\s*(\d+)\s*,\s*(\d+)\s*,\s*(\d+)\s*\)/i tried at index i.     *)
(* Every \s* is followed by a non-space and every \d+ by a non-digit, so   *)
(* the greedy match is the only one.  The result is the three groups.      *)
EqCI(c, lower, upper) == c = lower \/ c = upper
RgbMatchAt(s, i) ==
    LET p1 == SkipWhile(s, i + 3, Whitespace)
        p2 == SkipWhile(s, p1 + 1, Whitespace)
        e1 == SkipWhile(s, p2, Digits)
        p3 == SkipWhile(s, e1, Whitespace)
        p4 == SkipWhile(s, p3 + 1, Whitespace)
        e2 == SkipWhile(s, p4, Digits)
        p5 == SkipWhile(s, e2, Whitespace)
        p6 == SkipWhile(s, p5 + 1, Whitespace)
        e3 == SkipWhile(s, p6, Digits)
        p7 == SkipWhile(s, e3, Whitespace)
    IN  IF /\ EqCI(CharAt(s, i), "r", "R")
           /\ EqCI(CharAt(s, i + 1), "g", "G")
           /\ EqCI(CharAt(s, i + 2), "b", "B")
           /\ CharAt(s, p1) = "("
           /\ e1 > p2
           /\ CharAt(s, p3) = ","
           /\ e2 > p4
           /\ CharAt(s, p5) = ","
           /\ e3 > p6
           /\ CharAt(s, p7) = ")"
        THEN Some(<<SubSeq(s, p2, e1 - 1), SubSeq(s, p4, e2 - 1), SubSeq(s, p6, e3 - 1)>>)
        ELSE None

(* String.prototype.match without the g flag: the leftmost match           *)
RgbMatch(s) ==
    LET starts == {i \in 1..Len(s) : IsSome(RgbMatchAt(s, i))}
    IN  IF starts = {} THEN None ELSE RgbMatchAt(s, SetMin(starts))

(* /^#?([0-9a-f]{3,6})$/i : the captured group, or None                    *)
HexMatch(s) ==
    LET body == IF CharAt(s, 1) = "#" THEN Tail(s) ELSE s
    IN  IF Len(body) >= 3 /\ Len(body) <= 6 /\ \A i \in 1..Len(body) : body[i] \in HexDigits
        THEN Some(body) ELSE None

(* parseColor(colorStr, fallback); colorStr is an optional string          *)
parseColor(colorStr, fallback) ==
    IF ~IsSome(colorStr) \/ Get(colorStr) = <<>> THEN fallback
    ELSE LET s == Get(colorStr)
             rgbMatch == RgbMatch(s)
             hexMatch == HexMatch(s)
         IN  IF IsSome(rgbMatch)
             THEN rgb(Over255(parseInt(Get(rgbMatch)[1], 10)),
                      Over255(parseInt(Get(rgbMatch)[2], 10)),
                      Over255(parseInt(Get(rgbMatch)[3], 10)))
             ELSE IF IsSome(hexMatch)
             THEN LET h == Get(hexMatch)
                      hex == IF Len(h) = 3
                             THEN <<h[1], h[1], h[2], h[2], h[3], h[3]>>
                             ELSE h
                  IN  rgb(Over255(parseInt(Substring(hex, 0, 2), 16)),
                          Over255(parseInt(Substring(hex, 2, 4), 16)),
                          Over255(parseInt(Substring(hex, 4, 6), 16)))
             ELSE fallback

----------------------------------------------------------------------------
(* Displayed strings.  A Text is a string of the manifest: id names its    *)
(* content, words are the Helvetica widths (1/1000 em) of its whitespace-  *)
(* separated words, date says whether new Date(id) is a valid date, enc    *)
(* whether every character is in the WinAnsi set of the standard fonts.    *)

SPACE_WIDTH == 278

T(id, words) == [id |-> id, words |-> words, date |-> FALSE, enc |-> TRUE]
DateT(id, words) == [id |-> id, words |-> words, date |-> TRUE, enc |-> TRUE]
NoEncT(id, words) == [id |-> id, words |-> words, date |-> FALSE, enc |-> FALSE]
EmptyText == T("", <<>>)

(* JavaScript truthiness of an optional string *)
Truthy(optText) == IsSome(optText) /\ Get(optText).id # ""

(* A string as handed to the document: kind tells how it was produced      *)
(* (raw manifest text, or a formatted date / currency amount), a and b the *)
(* formatting options used.                                                *)
Str(kind, id, a, b, words, enc) ==
    [kind |-> kind, id |-> id, a |-> a, b |-> b, words |-> words, enc |-> enc]
Raw(t) == Str("raw", t.id, "", "", t.words, t.enc)
Lit(id, words) == Str("literal", id, "", "", words, TRUE)

----------------------------------------------------------------------------
(* pkpass.ts                                                               *)

PASS_STYLES == <<"boardingPass", "coupon", "eventTicket", "generic", "storeCard">>

ImageKeys == <<"logo", "icon", "strip", "background", "thumbnail", "footer">>

(* the three candidate names of a role, in the order the code tries them   *)
File(key, variant) == <<key, variant>>
Variants(key) == <<File(key, "@3x"), File(key, "@2x"), File(key, "")>>
VariantsBaseFirst(key) == <<File(key, ""), File(key, "@2x"), File(key, "@3x")>>
ImageFileNames == {File(ImageKeys[k], v) : k \in 1..Len(ImageKeys), v \in {"@3x", "@2x", ""}}

(* detectPassStyle: the first style whose key holds a (truthy) object      *)
RECURSIVE DetectFrom(_, _)
DetectFrom(passJson, i) ==
    IF i > Len(PASS_STYLES) THEN "generic"
    ELSE IF IsSome(passJson[PASS_STYLES[i]]) THEN PASS_STYLES[i]
    ELSE DetectFrom(passJson, i + 1)
RECURSIVE DetectLastFrom(_, _)
DetectLastFrom(passJson, i) ==
    IF i < 1 THEN "generic"
    ELSE IF IsSome(passJson[PASS_STYLES[i]]) THEN PASS_STYLES[i]
    ELSE DetectLastFrom(passJson, i - 1)
detectPassStyleLast(passJson) == DetectLastFrom(passJson, Len(PASS_STYLES))
detectPassStyle(passJson) == DetectFrom(passJson, 1)

(* getStyleContent: passJson[style], possibly undefined *)
getStyleContentOfTicket(passJson, style) == passJson["eventTicket"]
getStyleContent(passJson, style) == passJson[style]

(* extractImages: per role the payload of the first variant found          *)
RECURSIVE FirstFound(_, _, _)
FirstFound(zip, names, i) ==
    IF i > Len(names) THEN None
    ELSE IF names[i] \in DOMAIN zip.files THEN Some(zip.files[names[i]])
    ELSE FirstFound(zip, names, i + 1)
extractImagesBaseFirst(zip) ==
    [key \in {ImageKeys[k] : k \in 1..Len(ImageKeys)} |->
        FirstFound(zip, VariantsBaseFirst(key), 1)]
extractImages(zip) ==
    [key \in {ImageKeys[k] : k \in 1..Len(ImageKeys)} |->
        FirstFound(zip, Variants(key), 1)]

(* passJson.barcodes?.[0] ?? passJson.barcode *)
selectBarcodeLegacyFirst(passJson) ==
    IF IsSome(passJson.barcode) THEN passJson.barcode
    ELSE IF IsSome(passJson.barcodes) /\ Len(Get(passJson.barcodes)) > 0
    THEN Some(Get(passJson.barcodes)[1])
    ELSE None
selectBarcode(passJson) ==
    IF IsSome(passJson.barcodes) /\ Len(Get(passJson.barcodes)) > 0
    THEN Some(Get(passJson.barcodes)[1])
    ELSE passJson.barcode

(* styleContent?.xFields ?? [] *)
SectionOr(styleContent, section) ==
    IF IsSome(styleContent) /\ IsSome(Get(styleContent)[section])
    THEN Get(Get(styleContent)[section])
    ELSE <<>>

(* the ParsedPass object literal returned by parsePkpass *)
BuildParsedPass(passJson, style, styleContent, images) ==
    [raw |-> passJson,
     style |-> style,
     organizationName |-> passJson.organizationName,
     description |-> passJson.description,
     logoText |-> passJson.logoText,
     headerFields |-> SectionOr(styleContent, "headerFields"),
     primaryFields |-> SectionOr(styleContent, "primaryFields"),
     secondaryFields |-> SectionOr(styleContent, "secondaryFields"),
     auxiliaryFields |-> SectionOr(styleContent, "auxiliaryFields"),
     backFields |-> SectionOr(styleContent, "backFields"),
     barcode |-> selectBarcode(passJson),
     images |-> images,
     foregroundColor |-> passJson.foregroundColor,
     backgroundColor |-> passJson.backgroundColor,
     labelColor |-> passJson.labelColor,
     transitType |-> IF style = "boardingPass" /\ IsSome(passJson.boardingPass)
                     THEN Get(passJson.boardingPass).transitType
                     ELSE None,
     relevantDate |-> passJson.relevantDate,
     expirationDate |-> passJson.expirationDate]

----------------------------------------------------------------------------
(* pdf.ts: drawing operations.  The document is the sequence of drawing    *)
(* calls made on its pages.  x is a fraction <<numerator, denominator>>    *)
(* (CONTENT_WIDTH / columns and centred text are not whole); y is whole.   *)
(* throws # "" marks a call that raises instead of drawing.                *)

NoStr == Str("none", "", <<>>, <<>>, <<>>, TRUE)
Whole(n) == <<n, 1>>

Op(page, op, tag, sec, idx, x, yy, size, str, throws) ==
    [page |-> page, op |-> op, tag |-> tag, sec |-> sec, idx |-> idx,
     x |-> x, y |-> yy, size |-> size, str |-> str, throws |-> throws]

(* page.drawText: the standard fonts encode WinAnsi only, and encoding     *)
(* any other character raises                                              *)
TextOp(page, tag, sec, idx, x, yy, size, str) ==
    Op(page, "text", tag, sec, idx, x, yy, size, str,
       IF str.kind = "throw" THEN str.id
       ELSE IF ~str.enc THEN "WinAnsi cannot encode"
       ELSE "")
ImageOp(page, tag, x, yy, size, src) ==
    Op(page, "image", tag, "", 0, x, yy, size, Str("image", "", src, <<>>, <<>>, TRUE), "")
RectOp(page, tag, color) ==
    Op(page, "rect", tag, "", 0, Whole(0), 0, 0, Str("color", color.type, <<>>, <<>>, <<color.red, color.green, color.blue>>, TRUE), "")
ThrowOp(tag, error) ==
    Op(0, "throw", tag, "", 0, Whole(0), 0, 0, NoStr, error)

(* drawSeparator *)
drawSeparator(page, yy) ==
    Op(page, "line", "separator", "", 0, Whole(MARGIN), yy, 0, NoStr, "")

(* the index of the first raising call of ops, or Len(ops) + 1 *)
RECURSIVE FirstThrow(_, _)
FirstThrow(ops, i) ==
    IF i > Len(ops) THEN i
    ELSE IF ops[i].throws # "" THEN i
    ELSE FirstThrow(ops, i + 1)
Throws(ops) == FirstThrow(ops, 1) <= Len(ops)
Drawn(ops) == SubSeq(ops, 1, FirstThrow(ops, 1) - 1)
Thrown(ops) == ops[FirstThrow(ops, 1)].throws

----------------------------------------------------------------------------
(* formatFieldValue                                                        *)

(* Intl.NumberFormat raises a RangeError unless the currency code is three *)
(* ASCII letters                                                           *)
IsWellFormedCurrencyCode(code) ==
    Len(code) = 3 /\ \A i \in 1..Len(code) : code[i] \in Letters

TruthyStr(opt) == IsSome(opt) /\ Get(opt) # ""
TruthyChars(opt) == IsSome(opt) /\ Get(opt) # <<>>

DateStyleOption(hint) ==
    IF ~IsSome(hint) THEN <<>>
    ELSE IF Get(hint) = "PKDateStyleShort" THEN <<"short">>
    ELSE IF Get(hint) = "PKDateStyleMedium" THEN <<"medium">>
    ELSE IF Get(hint) = "PKDateStyleLong" THEN <<"long">>
    ELSE IF Get(hint) = "PKDateStyleFull" THEN <<"full">>
    ELSE <<>>

(* widths of the en-US renderings of a date, by requested style; without    *)
(* any style the default is the numeric date                               *)
DatePartWords(ds) ==
    IF ds = <<"short">> THEN <<3892>>
    ELSE IF ds = <<"medium">> THEN <<1778, 1390, 2224>>
    ELSE IF ds = <<"long">> THEN <<4612, 1390, 2224>>
    ELSE IF ds = <<"full">> THEN <<4113, 4612, 1390, 2224>>
    ELSE <<>>
TimePartWords(ts) ==
    IF ts = <<>> THEN <<>>
    ELSE IF ts = <<"short">> THEN <<1946, 1500>>
    ELSE IF ts = <<"medium">> THEN <<3336, 1500>>
    ELSE <<3336, 1500, 1945>>
DateWords(ds, ts) ==
    IF ds = <<>> /\ ts = <<>> THEN <<5004>>
    ELSE DatePartWords(ds) \o TimePartWords(ts)

formatFieldValue(field) ==
    LET value == field.value IN
    IF value.type = "number"
    THEN IF TruthyChars(field.currencyCode)
         THEN IF IsWellFormedCurrencyCode(Get(field.currencyCode))
              THEN Str("currency", value.text.id, Get(field.currencyCode), <<>>,
                       <<SumSeq(value.text.words) + 556>>, TRUE)
              ELSE Str("throw", "RangeError: Invalid currency code", <<>>, <<>>, <<>>, TRUE)
         ELSE Str("number", value.text.id, <<>>, <<>>, value.text.words, value.text.enc)
    ELSE IF TruthyStr(field.dateStyle) /\ value.text.date
    THEN LET ds == DateStyleOption(field.dateStyle)
             ts == DateStyleOption(field.timeStyle)
         IN  Str("date", value.text.id, ds, ts, DateWords(ds, ts), TRUE)
    ELSE Raw(value.text)

----------------------------------------------------------------------------
(* wrapText and font.widthOfTextAtSize                                     *)

(* width in 1/1000 pt of a line of words at a font size *)
LineUnits(words) ==
    IF words = <<>> THEN 0 ELSE SumSeq(words) + SPACE_WIDTH * (Len(words) - 1)
Fits(words, fontSize, maxWidth) == LineUnits(words) * fontSize <= maxWidth * 1000

(* the lines (each a sequence of words) that the greedy loop produces *)
RECURSIVE WrapFrom(_, _, _, _, _, _)
WrapFrom(words, i, currentLine, lines, fontSize, maxWidth) ==
    IF i > Len(words)
    THEN IF currentLine # <<>> THEN Append(lines, currentLine) ELSE lines
    ELSE LET testLine == Append(currentLine, words[i]) IN
         IF Fits(testLine, fontSize, maxWidth)
         THEN WrapFrom(words, i + 1, testLine, lines, fontSize, maxWidth)
         ELSE WrapFrom(words, i + 1, <<words[i]>>,
                       IF currentLine # <<>> THEN Append(lines, currentLine) ELSE lines,
                       fontSize, maxWidth)
wrapText(words, fontSize, maxWidth) == WrapFrom(words, 1, <<>>, <<>>, fontSize, maxWidth)

----------------------------------------------------------------------------
(* drawFieldSection: [ops, y]                                              *)

Upper(t) == Str("upper", t.id, <<>>, <<>>, t.words, t.enc)

LabelValueGap(field, labelSize) == IF Truthy(field.label) THEN labelSize + 6 ELSE 0

FieldOps(page, sec, fields, i, yy, columns, labelSize, valueSize) ==
    LET field == fields[i]
        col == (i - 1) % columns
        x == <<MARGIN * columns + col * CONTENT_WIDTH, columns>>
        labelOps == IF Truthy(field.label)
                    THEN <<TextOp(page, "fieldLabel", sec, i, x, yy, labelSize, Upper(Get(field.label)))>>
                    ELSE <<>>
    IN  labelOps \o
        <<TextOp(page, "fieldValue", sec, i, x, yy - LabelValueGap(field, labelSize),
                 valueSize, formatFieldValue(field))>>

RowEndsPerField(i, n, columns) == TRUE
RowEnds(i, n, columns) == (i - 1) % columns = columns - 1 \/ i = n

RECURSIVE DrawFieldsFrom(_, _, _, _, _, _, _, _, _)
DrawFieldsFrom(page, sec, fields, i, yy, columns, labelSize, valueSize, ops) ==
    IF i > Len(fields) THEN [ops |-> ops, y |-> yy]
    ELSE DrawFieldsFrom(page, sec, fields, i + 1,
            IF RowEnds(i, Len(fields), columns)
            THEN yy - (LabelValueGap(fields[i], labelSize) + valueSize + 12)
            ELSE yy,
            columns, labelSize, valueSize,
            ops \o FieldOps(page, sec, fields, i, yy, columns, labelSize, valueSize))

drawFieldSection(page, sec, fields, yPosition, columns, labelSize, valueSize) ==
    IF Len(fields) = 0 THEN [ops |-> <<>>, y |-> yPosition]
    ELSE DrawFieldsFrom(page, sec, fields, 1, yPosition, columns, labelSize, valueSize, <<>>)

----------------------------------------------------------------------------
(* formatPassStyle                                                         *)

StyleMap(style) ==
    CASE style = "boardingPass" -> "Boarding Pass"
      [] style = "coupon" -> "Coupon"
      [] style = "eventTicket" -> "Event Ticket"
      [] style = "generic" -> "Pass"
      [] style = "storeCard" -> "Store Card"
      [] OTHER -> style

TransitTypes == {"PKTransitTypeAir", "PKTransitTypeBoat", "PKTransitTypeBus",
                 "PKTransitTypeGeneric", "PKTransitTypeTrain"}
TransitMap(transitType) ==
    CASE transitType = "PKTransitTypeAir" -> "Flight"
      [] transitType = "PKTransitTypeBoat" -> "Ferry"
      [] transitType = "PKTransitTypeBus" -> "Bus"
      [] transitType = "PKTransitTypeGeneric" -> "Transit"
      [] transitType = "PKTransitTypeTrain" -> "Train"

(* transitMap is an object literal: indexing it with the name of a         *)
(* property it inherits from Object.prototype gives that property (a       *)
(* function or an object), which is not undefined, so ?? keeps it          *)
ObjectPrototypeKeys ==
    {"constructor", "toString", "toLocaleString", "valueOf", "hasOwnProperty",
     "isPrototypeOf", "propertyIsEnumerable", "__proto__"}
NOT_A_STRING == "[inherited property]"

formatPassStyle(style, transitType) ==
    IF TruthyStr(transitType) /\ Get(transitType) \in TransitTypes
    THEN TransitMap(Get(transitType))
    ELSE IF TruthyStr(transitType) /\ Get(transitType) \in ObjectPrototypeKeys
    THEN NOT_A_STRING
    ELSE StyleMap(style)

(* page.drawText(styleLabel): drawText asserts that its text is a string   *)
StyleLabelStr(label) ==
    IF label = NOT_A_STRING
    THEN Str("throw", "TypeError: text must be of type string", <<>>, <<>>, <<>>, TRUE)
    ELSE Lit(label, <<>>)

----------------------------------------------------------------------------
(* generateQRCode: the qrcode library rejects an empty message ("No input  *)
(* text") and one beyond the capacity of the largest symbol at level M.    *)

QR_CAPACITY_M == 2331

generateQRCode(barcode) ==
    IF barcode.bytes = 0 THEN [ok |-> FALSE, error |-> "No input text"]
    ELSE IF barcode.bytes > QR_CAPACITY_M
    THEN [ok |-> FALSE, error |-> "The amount of data is too big to be stored in a QR Code"]
    ELSE [ok |-> TRUE, error |-> ""]

----------------------------------------------------------------------------
(* generatePdf, section by section.  Each operator gives the drawing calls *)
(* of one section, in order, and the cursor after it: [ops, y].            *)

PAGE_BREAK_Y == 150
BottomUnchecked == 0 - PAGE_HEIGHT
BOTTOM_Y == 50
FOOTER_Y == 25
QR_SIZE == 120
STRIP_MAX_HEIGHT == 120
LOGO_HEIGHT == 30
THUMBNAIL_HEIGHT == 50
MAX_INPLACE_LINES == 3

(* pdfDoc.embedPng raises on bytes that are not a PNG *)
Embeds(optImage) == IsSome(optImage) /\ Get(optImage).png

(* header: logo / logo text / organization name, thumbnail; lines 207-280 *)
HeaderSection(pass, yy) ==
    LET logoOps ==
            IF Embeds(pass.images.logo)
            THEN LET img == Get(pass.images.logo) IN
                 <<ImageOp(1, "logo", Whole(MARGIN), yy - LOGO_HEIGHT, LOGO_HEIGHT, img.src)>> \o
                 (IF Truthy(pass.logoText)
                  THEN <<TextOp(1, "logoText", "", 0,
                                <<(MARGIN + 10) * img.h + img.w * LOGO_HEIGHT, img.h>>,
                                yy - 20, 14, Raw(Get(pass.logoText)))>>
                  ELSE <<>>)
            ELSE IF Truthy(pass.logoText)
            THEN <<TextOp(1, "logoText", "", 0, Whole(MARGIN), yy - 20, 14, Raw(Get(pass.logoText)))>>
            ELSE <<TextOp(1, "organizationName", "", 0, Whole(MARGIN), yy - 20, 14,
                          Raw(pass.organizationName))>>
        thumbOps ==
            IF Embeds(pass.images.thumbnail)
            THEN LET img == Get(pass.images.thumbnail) IN
                 <<ImageOp(1, "thumbnail",
                           <<(PAGE_WIDTH - MARGIN) * img.h - img.w * THUMBNAIL_HEIGHT, img.h>>,
                           yy - THUMBNAIL_HEIGHT, THUMBNAIL_HEIGHT, img.src)>>
            ELSE <<>>
    IN  [ops |-> logoOps \o thumbOps, y |-> yy - 50]

(* header fields; lines 282-289 *)
HeaderFieldsSection(pass, yy) ==
    IF Len(pass.headerFields) > 0
    THEN drawFieldSection(1, "header", pass.headerFields, yy,
                          MinOf(Len(pass.headerFields), 3), 7, 10)
    ELSE [ops |-> <<>>, y |-> yy]

(* strip image; lines 291-309 *)
StripHeight(img) == MinOf((img.h * CONTENT_WIDTH) \div img.w, STRIP_MAX_HEIGHT)
StripSection(pass, yy) ==
    IF Embeds(pass.images.strip)
    THEN LET img == Get(pass.images.strip) IN
         [ops |-> <<ImageOp(1, "strip", Whole(MARGIN), yy - StripHeight(img), StripHeight(img), img.src)>>,
          y |-> yy - (StripHeight(img) + 15)]
    ELSE [ops |-> <<>>, y |-> yy]

(* description, style label, separator; lines 311-334 *)
TitleSection(pass, yy) ==
    [ops |-> <<TextOp(1, "description", "", 0, Whole(MARGIN), yy, 18, Raw(pass.description)),
               TextOp(1, "styleLabel", "", 0, Whole(MARGIN), yy - 30, 9,
                      StyleLabelStr(formatPassStyle(pass.style, pass.transitType))),
               drawSeparator(1, yy - 50)>>,
     y |-> yy - 65]

(* primary fields; lines 336-344 *)
PrimarySection(pass, yy) ==
    IF Len(pass.primaryFields) > 0
    THEN LET r == drawFieldSection(1, "primary", pass.primaryFields, yy,
                                   MinOf(Len(pass.primaryFields), 2), 9, 16)
         IN  [ops |-> r.ops, y |-> r.y - 5]
    ELSE [ops |-> <<>>, y |-> yy]

(* secondary fields; lines 346-351 *)
SecondarySection(pass, yy) ==
    IF Len(pass.secondaryFields) > 0
    THEN drawFieldSection(1, "secondary", pass.secondaryFields, yy,
                          MinOf(Len(pass.secondaryFields), 3), 8, 11)
    ELSE [ops |-> <<>>, y |-> yy]

(* auxiliary fields; lines 353-360 *)
AuxiliarySection(pass, yy) ==
    IF Len(pass.auxiliaryFields) > 0
    THEN LET r == drawFieldSection(1, "auxiliary", pass.auxiliaryFields, yy - 15,
                                   MinOf(Len(pass.auxiliaryFields), 3), 8, 11)
         IN  [ops |-> <<drawSeparator(1, yy)>> \o r.ops, y |-> r.y]
    ELSE [ops |-> <<>>, y |-> yy]

(* barcode block; lines 362-405.  qr is the number of encoder calls.       *)
FormatLabel(format) == Lit(format.name, format.words)
BarcodeSection(pass, yy) ==
    IF IsSome(pass.barcode)
    THEN LET barcode == Get(pass.barcode)
             qr == generateQRCode(barcode)
             formatLabel == FormatLabel(barcode.format)
             y1 == yy - 20
             y2 == y1 - (QR_SIZE + 10)
             y3 == y2 - 12
         IN  IF ~qr.ok
             THEN [ops |-> <<[drawSeparator(1, yy) EXCEPT !.tag = "barcodeSeparator"],
                             ThrowOp("generateQRCode", qr.error)>>,
                   y |-> y1, qr |-> 1]
             ELSE [ops |-> <<[drawSeparator(1, yy) EXCEPT !.tag = "barcodeSeparator"],
                             ImageOp(1, "qr", <<PAGE_WIDTH - QR_SIZE, 2>>, y1 - QR_SIZE, QR_SIZE,
                                     <<barcode.message.id>>),
                             TextOp(1, "barcodeFormat", "", 0,
                                    <<PAGE_WIDTH * 1000 - LineUnits(formatLabel.words) * 8, 2000>>,
                                    y2, 8, formatLabel)>> \o
                           (IF Truthy(barcode.altText)
                            THEN <<TextOp(1, "barcodeAltText", "", 0,
                                          <<PAGE_WIDTH * 1000 - LineUnits(Get(barcode.altText).words) * 10, 2000>>,
                                          y3, 10, Raw(Get(barcode.altText)))>>
                            ELSE <<>>),
                   y |-> IF Truthy(barcode.altText) THEN y3 - 15 ELSE y3,
                   qr |-> 1]
    ELSE [ops |-> <<>>, y |-> yy, qr |-> 0]

(* back fields; lines 407-504.  A layout is the type sizes and steps of    *)
(* one of the two placements.                                              *)
NewPageLayout ==
    [page |-> 2, labelSize |-> 9, labelStep |-> 12, size |-> 10, step |-> 14,
     capped |-> FALSE, gap |-> 10]
InPlaceLayout ==
    [page |-> 1, labelSize |-> 8, labelStep |-> 11, size |-> 9, step |-> 12,
     capped |-> TRUE, gap |-> 8]

LineStr(v, words) == Str(v.kind, v.id, v.a, v.b, words, v.enc)

(* the inner loop over the wrapped lines of one value *)
RECURSIVE BackLines(_, _, _, _, _, _, _, _)
BackLines(lay, idx, v, lines, k, n, yy, ops) ==
    IF k > n \/ yy < BOTTOM_Y THEN [ops |-> ops, y |-> yy]
    ELSE BackLines(lay, idx, v, lines, k + 1, n, yy - lay.step,
                   Append(ops, TextOp(lay.page, "backLine", "back", idx, Whole(MARGIN), yy,
                                      lay.size, LineStr(v, lines[k]))))

(* the outer loop over the back fields *)
RECURSIVE BackFrom(_, _, _, _, _)
BackFrom(lay, fields, i, yy, ops) ==
    IF i > Len(fields) \/ yy < BOTTOM_Y THEN [ops |-> ops, y |-> yy]
    ELSE LET field == fields[i]
             labelOps == IF Truthy(field.label)
                         THEN <<TextOp(lay.page, "backLabel", "back", i, Whole(MARGIN), yy,
                                       lay.labelSize, Raw(Get(field.label)))>>
                         ELSE <<>>
             y1 == IF Truthy(field.label) THEN yy - lay.labelStep ELSE yy
             v == formatFieldValue(field)
         IN  IF v.kind = "throw"
             THEN [ops |-> ops \o labelOps \o <<ThrowOp("formatFieldValue", v.id)>>, y |-> y1]
             ELSE IF ~v.enc /\ v.words # <<>>
             THEN [ops |-> ops \o labelOps \o <<ThrowOp("wrapText", "WinAnsi cannot encode")>>, y |-> y1]
             ELSE LET lines == wrapText(v.words, lay.size, CONTENT_WIDTH)
                      n == IF lay.capped THEN MinOf(Len(lines), MAX_INPLACE_LINES) ELSE Len(lines)
                      r == BackLines(lay, i, v, lines, 1, n, y1, ops \o labelOps)
                  IN  BackFrom(lay, fields, i + 1, r.y - lay.gap, r.ops)

NeedsNewPageNever(yy) == FALSE
NeedsNewPageAlways(yy) == TRUE
NeedsNewPageAtThreshold(yy) == yy <= PAGE_BREAK_Y
NeedsNewPage(yy) == yy < PAGE_BREAK_Y

BackFieldsSection(pass, yy, bgColor) ==
    IF Len(pass.backFields) > 0
    THEN IF NeedsNewPage(yy)
         THEN LET y0 == PAGE_HEIGHT - MARGIN
                  r == BackFrom(NewPageLayout, pass.backFields, 1, y0 - 25,
                                <<RectOp(2, "background", bgColor),
                                  TextOp(2, "backTitle", "", 0, Whole(MARGIN), y0, 14,
                                         Lit("Additional Information", <<4391, 5002>>))>>)
              IN  [ops |-> r.ops, y |-> r.y, pages |-> 2, reset |-> Some(y0)]
         ELSE LET r == BackFrom(InPlaceLayout, pass.backFields, 1, yy - 33,
                                <<drawSeparator(1, yy),
                                  TextOp(1, "backTitle", "", 0, Whole(MARGIN), yy - 15, 10,
                                         Lit("Additional Information", <<4391, 5002>>))>>)
              IN  [ops |-> r.ops, y |-> r.y, pages |-> 1, reset |-> None]
    ELSE [ops |-> <<>>, y |-> yy, pages |-> 1, reset |-> None]

(* footer; lines 506-533.  toLocaleDateString of an invalid Date is the    *)
(* string "Invalid Date"; it does not raise.                               *)
FooterSection(pass) ==
    LET serial == pass.raw.serialNumber
        serialOp == TextOp(1, "serial", "", 0, Whole(MARGIN), FOOTER_Y, 7,
                           Str("serial", serial.id, <<>>, <<>>, <<2834>> \o serial.words, serial.enc))
        dateOps ==
            IF Truthy(pass.relevantDate)
            THEN LET d == Get(pass.relevantDate) IN
                 <<TextOp(1, "relevantDate", "", 0, Whole(PAGE_WIDTH - MARGIN - 80), FOOTER_Y, 7,
                          IF d.date
                          THEN Str("date", d.id, <<"medium">>, <<>>, <<2390>> \o DateWords(<<"medium">>, <<>>), TRUE)
                          ELSE Str("invalidDate", d.id, <<>>, <<>>, <<2390, 2890, 2112>>, TRUE))>>
            ELSE <<>>
    IN  [ops |-> <<serialOp>> \o dateOps]

----------------------------------------------------------------------------
(* The sample event ticket of test/create-fixture.ts                       *)

Field(key, label, text) ==
    [key |-> key, label |-> Some(label), value |-> [type |-> "string", text |-> text],
     currencyCode |-> None, dateStyle |-> None, timeStyle |-> None]

FormatQR == [prefix |-> "PKBarcodeFormat", name |-> "QR", words |-> <<1500>>]

SampleBarcode ==
    [message |-> T("https://example.com/ticket/TEST-001-2024", <<18952>>),
     bytes |-> 40,
     format |-> FormatQR,
     altText |-> Some(T("TEST-001-2024", <<7114>>))]

SampleBackFields ==
    <<Field("terms", T("Terms & Conditions", <<2833, 667, 4724>>),
            T("This ticket is non-refundable. ... Recording devices prohibited.",
              <<1889, 2334, 722, 7004, 2167, 3335, 2056, 1000, 4057, 1390, 2501, 1112,
                1390, 2612, 1278, 3445, 3668, 4557, 3390, 4669>>)),
      Field("contact", T("Contact", <<3446>>),
            T("support@example.com | 1-800-EXAMPLE", <<10296, 260, 7614>>))>>

SampleEventTicket ==
    [headerFields |-> Some(<<Field("date", T("DATE", <<2667>>), DateT("Dec 31, 2024", <<1778, 1390, 2224>>))>>),
     primaryFields |-> Some(<<Field("event", T("EVENT", <<3334>>), T("Rock Festival 2024", <<2278, 3445, 2224>>))>>),
     secondaryFields |-> Some(<<Field("location", T("VENUE", <<3445>>), T("Madison Square Garden", <<3779, 3224, 3335>>)),
                               Field("time", T("DOORS OPEN", <<3667, 2834>>), T("7:00 PM", <<1946, 1500>>))>>),
     auxiliaryFields |-> Some(<<Field("section", T("SECTION", <<4445>>), T("Floor A", <<2278, 667>>)),
                               Field("row", T("ROW", <<2444>>), T("12", <<1112>>)),
                               Field("seat", T("SEAT", <<2612>>), T("45", <<1112>>))>>),
     backFields |-> Some(SampleBackFields),
     transitType |-> None]

Chars_rgb(r, g, b) == <<"r", "g", "b", "(">> \o r \o <<",", " ">> \o g \o <<",", " ">> \o b \o <<")">>

samplePassJson ==
    [serialNumber |-> T("TEST-001-2024", <<7114>>),
     organizationName |-> T("Test Events Inc.", <<1945, 3057, 1612>>),
     description |-> T("Concert Ticket - Rock Festival 2024", <<3501, 2667, 333, 2278, 3445, 2224>>),
     logoText |-> Some(T("Rock Fest", <<2278, 1945>>)),
     foregroundColor |-> Some(Chars_rgb(<<"2", "5", "5">>, <<"2", "5", "5">>, <<"2", "5", "5">>)),
     backgroundColor |-> Some(Chars_rgb(<<"6", "0">>, <<"6", "5">>, <<"7", "6">>)),
     labelColor |-> Some(Chars_rgb(<<"1", "9", "8">>, <<"2", "0", "2">>, <<"2", "1", "1">>)),
     barcode |-> Some(SampleBarcode),
     barcodes |-> Some(<<SampleBarcode>>),
     relevantDate |-> Some(DateT("2024-12-31T19:00:00-05:00", <<12452>>)),
     expirationDate |-> None,
     boardingPass |-> None,
     coupon |-> None,
     eventTicket |-> Some(SampleEventTicket),
     generic |-> None,
     storeCard |-> None]

(* an archive entry's payload: src stands for its bytes (distinct per      *)
(* entry), png says whether they are a PNG, w and h its pixel size         *)
Payload(src, png, w, h) == [src |-> src, png |-> png, w |-> w, h |-> h]
MinimalPng(name) == Payload(name, TRUE, 1, 1)

(* createFixture: icon.png, icon@2x.png, logo.png, logo@2x.png *)
FixtureFileNamesWithThumbnail ==
    {File("icon", ""), File("icon", "@2x"), File("thumbnail", ""), File("thumbnail", "@2x")}
FixtureFileNames == {File("icon", ""), File("icon", "@2x"), File("logo", ""), File("logo", "@2x")}
FilesOf(names) == [f \in names |-> MinimalPng(f)]

PkpassPath == [name |-> "sample-event", ext |-> ".pkpass"]
EmptyPath == [name |-> "", ext |-> ""]

SampleEnv ==
    [argv |-> Some(PkpassPath),
     promptFile |-> None,
     exists |-> TRUE,
     zip |-> "ok",
     manifest |-> "ok",
     passJson |-> samplePassJson,
     files |-> FilesOf(FixtureFileNames),
     writeOk |-> TRUE]

----------------------------------------------------------------------------
(* Environments every specification starts from: the sample run and one    *)
(* run for each way the CLI can stop early.                                *)

BaseEnvs ==
    {SampleEnv,
     [SampleEnv EXCEPT !.argv = None],
     [SampleEnv EXCEPT !.argv = None, !.promptFile = Some(PkpassPath)],
     [SampleEnv EXCEPT !.exists = FALSE],
     [SampleEnv EXCEPT !.argv = Some([name |-> "sample-event", ext |-> ".zip"])],
     [SampleEnv EXCEPT !.zip = "unreadable"],
     [SampleEnv EXCEPT !.zip = "notzip"],
     [SampleEnv EXCEPT !.manifest = "absent"],
     [SampleEnv EXCEPT !.manifest = "malformed"],
     [SampleEnv EXCEPT !.writeOk = FALSE]}

NoLocals == [zip |-> None, passJson |-> None, style |-> None, styleContent |-> None, images |-> None]

InitWith(envs) ==
    /\ env \in envs
    /\ pc = "main"
    /\ trace = <<>>
    /\ inputPath = EmptyPath
    /\ parse = NoLocals
    /\ passData = None
    /\ colors = None
    /\ y = 0
    /\ pages = 0
    /\ log = <<>>
    /\ qrCalls = 0
    /\ stepY = <<>>
    /\ console = <<>>
    /\ err = None
    /\ exitCode = None
    /\ written = None

----------------------------------------------------------------------------
(* cli.ts main                                                             *)

Exit(code, message) ==
    /\ pc' = "exited"
    /\ exitCode' = Some(code)
    /\ console' = console \o message

(* lines 18-41: the path from argv, or else from the prompt *)
MainInput ==
    /\ pc = "main"
    /\ trace' = Append(trace, "MainInput")
    /\ LET arg == IF IsSome(env.argv) THEN Get(env.argv) ELSE EmptyPath IN
       IF arg # EmptyPath
       THEN /\ inputPath' = arg
            /\ pc' = "validate"
            /\ console' = console \o <<"LOGO">>
            /\ UNCHANGED exitCode
       ELSE IF IsSome(env.promptFile)
       THEN /\ inputPath' = Get(env.promptFile)
            /\ pc' = "validate"
            /\ console' = console \o <<"LOGO">>
            /\ UNCHANGED exitCode
       ELSE /\ Exit(1, <<"LOGO", "No file provided. Exiting.">>)
            /\ UNCHANGED inputPath
    /\ UNCHANGED <<env, parse, passData, colors, y, pages, log, qrCalls, stepY, err, written>>

(* lines 43-69: the file must exist and end in .pkpass *)
MainValidate ==
    /\ pc = "validate"
    /\ trace' = Append(trace, "MainValidate")
    /\ IF ~env.exists
       THEN Exit(1, <<"File not found">>)
       ELSE IF inputPath.ext # ".pkpass"
       THEN Exit(1, <<"File must have .pkpass extension">>)
       ELSE /\ pc' = "parse_open"
            /\ console' = console \o <<"Input", "Output", "Parsing .pkpass file...">>
            /\ UNCHANGED exitCode
    /\ UNCHANGED <<env, inputPath, parse, passData, colors, y, pages, log, qrCalls, stepY, err, written>>

(* an exception leaving parsePkpass or generatePdf lands in main's catch *)
Throw(error) ==
    /\ pc' = "catch"
    /\ err' = Some(error)

(* lines 70-81: what main prints once parsePkpass has returned *)
MainReport ==
    /\ pc = "report"
    /\ trace' = Append(trace, "MainReport")
    /\ console' = console \o <<"Pass type", "Organization", "Description">>
                     \o (IF IsSome(Get(passData).barcode) THEN <<"Barcode">> ELSE <<>>)
                     \o <<"Images found", "Generating PDF...">>
    /\ pc' = "gen_setup"
    /\ UNCHANGED <<env, inputPath, parse, passData, colors, y, pages, log, qrCalls, stepY, err,
                   exitCode, written>>

(* lines 86-88 *)
MainSuccess ==
    /\ pc = "success"
    /\ trace' = Append(trace, "MainSuccess")
    /\ console' = console \o <<"Success! PDF saved">>
    /\ pc' = "exited"
    /\ exitCode' = Some(0)
    /\ UNCHANGED <<env, inputPath, parse, passData, colors, y, pages, log, qrCalls, stepY, err, written>>

(* lines 89-93 *)
MainCatchExitZero ==
    /\ pc = "catch"
    /\ trace' = Append(trace, "MainCatch")
    /\ Exit(0, <<"Error">>)
    /\ UNCHANGED <<env, inputPath, parse, passData, colors, y, pages, log, qrCalls, stepY, err, written>>
MainCatch ==
    /\ pc = "catch"
    /\ trace' = Append(trace, "MainCatch")
    /\ Exit(1, <<"Error">>)
    /\ UNCHANGED <<env, inputPath, parse, passData, colors, y, pages, log, qrCalls, stepY, err, written>>

----------------------------------------------------------------------------
(* pkpass.ts parsePkpass                                                   *)

(* lines 49-50: read the file and open it as a ZIP archive *)
ParseOpen ==
    /\ pc = "parse_open"
    /\ trace' = Append(trace, "ParseOpen")
    /\ IF env.zip = "ok"
       THEN /\ parse' = [parse EXCEPT !.zip = Some([files |-> env.files, manifest |-> env.manifest])]
            /\ pc' = "parse_manifest"
            /\ UNCHANGED err
       ELSE /\ Throw(IF env.zip = "unreadable" THEN "read failed" ELSE "not a zip file")
            /\ UNCHANGED parse
    /\ UNCHANGED <<env, inputPath, passData, colors, y, pages, log, qrCalls, stepY, console,
                   exitCode, written>>

(* lines 53-56: zip.file("pass.json") is null when there is no such entry *)
ManifestMissingNever(zip) == FALSE
ManifestMissing(zip) == zip.manifest = "absent"

ParseManifest ==
    /\ pc = "parse_manifest"
    /\ trace' = Append(trace, "ParseManifest")
    /\ IF ManifestMissing(Get(parse.zip))
       THEN Throw("Invalid .pkpass file: pass.json not found")
       ELSE pc' = "parse_json" /\ UNCHANGED err
    /\ UNCHANGED <<env, inputPath, parse, passData, colors, y, pages, log, qrCalls, stepY, console,
                   exitCode, written>>

(* lines 58-64: JSON.parse of the entry's text *)
ParseJson ==
    /\ pc = "parse_json"
    /\ trace' = Append(trace, "ParseJson")
    /\ IF Get(parse.zip).manifest = "malformed"
       THEN /\ Throw("Invalid .pkpass file: pass.json is not valid JSON")
            /\ UNCHANGED parse
       ELSE /\ parse' = [parse EXCEPT !.passJson = Some(env.passJson)]
            /\ pc' = "parse_style"
            /\ UNCHANGED err
    /\ UNCHANGED <<env, inputPath, passData, colors, y, pages, log, qrCalls, stepY, console,
                   exitCode, written>>

(* lines 66-68 *)
ParseStyle ==
    /\ pc = "parse_style"
    /\ trace' = Append(trace, "ParseStyle")
    /\ LET style == detectPassStyle(Get(parse.passJson)) IN
       parse' = [parse EXCEPT !.style = Some(style),
                              !.styleContent = getStyleContent(Get(parse.passJson), style)]
    /\ pc' = "parse_images"
    /\ UNCHANGED <<env, inputPath, passData, colors, y, pages, log, qrCalls, stepY, console, err,
                   exitCode, written>>

(* lines 70-71 *)
ParseImages ==
    /\ pc = "parse_images"
    /\ trace' = Append(trace, "ParseImages")
    /\ parse' = [parse EXCEPT !.images = Some(extractImages(Get(parse.zip)))]
    /\ pc' = "parse_return"
    /\ UNCHANGED <<env, inputPath, passData, colors, y, pages, log, qrCalls, stepY, console, err,
                   exitCode, written>>

(* lines 73-98: the barcode and the returned object *)
ParseReturn ==
    /\ pc = "parse_return"
    /\ trace' = Append(trace, "ParseReturn")
    /\ passData' = Some(BuildParsedPass(Get(parse.passJson), Get(parse.style),
                                        parse.styleContent, Get(parse.images)))
    /\ pc' = "report"
    /\ UNCHANGED <<env, inputPath, parse, colors, y, pages, log, qrCalls, stepY, console, err,
                   exitCode, written>>

----------------------------------------------------------------------------
(* pdf.ts generatePdf                                                      *)

Pass == Get(passData)

(* one section of generatePdf: its drawing calls up to the first that      *)
(* raises, the cursor after it, and where control goes                     *)
Section(name, r, next) ==
    /\ trace' = Append(trace, name)
    /\ log' = log \o Drawn(r.ops)
    /\ IF Throws(r.ops)
       THEN /\ Throw(Thrown(r.ops))
            /\ y' = y
            /\ stepY' = Append(stepY, [step |-> name, before |-> y, after |-> y, threw |-> TRUE])
       ELSE /\ pc' = next
            /\ y' = r.y
            /\ stepY' = Append(stepY, [step |-> name, before |-> y, after |-> r.y, threw |-> FALSE])
            /\ UNCHANGED err

(* lines 184-205: document, first page, fonts, colors, background, cursor *)
GenSetup ==
    /\ pc = "gen_setup"
    /\ LET bgColor == parseColor(Pass.backgroundColor, DEFAULT_BG_COLOR)
           fgColor == parseColor(Pass.foregroundColor, DEFAULT_FG_COLOR)
           labelColor == parseColor(Pass.labelColor, DEFAULT_LABEL_COLOR)
           ok == bgColor.type = "RGB" /\ fgColor.type = "RGB" /\ labelColor.type = "RGB"
       IN  /\ colors' = IF ok THEN Some([bg |-> bgColor, fg |-> fgColor, label |-> labelColor])
                        ELSE colors
           /\ Section("GenSetup",
                      [ops |-> IF ok THEN <<RectOp(1, "background", bgColor)>>
                               ELSE <<ThrowOp("parseColor", "red, green, blue must be between 0 and 1")>>,
                       y |-> PAGE_HEIGHT - MARGIN],
                      "gen_header")
    /\ pages' = 1
    /\ UNCHANGED <<env, inputPath, parse, passData, qrCalls, console, exitCode, written>>

GenHeader ==
    /\ pc = "gen_header"
    /\ Section("GenHeader", HeaderSection(Pass, y), "gen_header_fields")
    /\ UNCHANGED <<env, inputPath, parse, passData, colors, pages, qrCalls, console, exitCode, written>>

GenHeaderFields ==
    /\ pc = "gen_header_fields"
    /\ Section("GenHeaderFields", HeaderFieldsSection(Pass, y), "gen_strip")
    /\ UNCHANGED <<env, inputPath, parse, passData, colors, pages, qrCalls, console, exitCode, written>>

GenStrip ==
    /\ pc = "gen_strip"
    /\ Section("GenStrip", StripSection(Pass, y), "gen_title")
    /\ UNCHANGED <<env, inputPath, parse, passData, colors, pages, qrCalls, console, exitCode, written>>

GenTitle ==
    /\ pc = "gen_title"
    /\ Section("GenTitle", TitleSection(Pass, y), "gen_primary")
    /\ UNCHANGED <<env, inputPath, parse, passData, colors, pages, qrCalls, console, exitCode, written>>

GenPrimary ==
    /\ pc = "gen_primary"
    /\ Section("GenPrimary", PrimarySection(Pass, y), "gen_secondary")
    /\ UNCHANGED <<env, inputPath, parse, passData, colors, pages, qrCalls, console, exitCode, written>>

GenSecondary ==
    /\ pc = "gen_secondary"
    /\ Section("GenSecondary", SecondarySection(Pass, y), "gen_auxiliary")
    /\ UNCHANGED <<env, inputPath, parse, passData, colors, pages, qrCalls, console, exitCode, written>>

GenAuxiliary ==
    /\ pc = "gen_auxiliary"
    /\ Section("GenAuxiliary", AuxiliarySection(Pass, y), "gen_barcode")
    /\ UNCHANGED <<env, inputPath, parse, passData, colors, pages, qrCalls, console, exitCode, written>>

GenBarcode ==
    /\ pc = "gen_barcode"
    /\ LET r == BarcodeSection(Pass, y) IN
       /\ Section("GenBarcode", r, "gen_back")
       /\ qrCalls' = qrCalls + r.qr
    /\ UNCHANGED <<env, inputPath, parse, passData, colors, pages, console, exitCode, written>>

GenBackFields ==
    /\ pc = "gen_back"
    /\ LET r == BackFieldsSection(Pass, y, Get(colors).bg) IN
       /\ Section("GenBackFields", r, "gen_footer")
       /\ pages' = r.pages
    /\ UNCHANGED <<env, inputPath, parse, passData, colors, qrCalls, console, exitCode, written>>

GenFooter ==
    /\ pc = "gen_footer"
    /\ Section("GenFooter", [ops |-> FooterSection(Pass).ops, y |-> y], "gen_save")
    /\ UNCHANGED <<env, inputPath, parse, passData, colors, pages, qrCalls, console, exitCode, written>>

(* lines 535-537: serialize and write to the output path *)
GenSave ==
    /\ pc = "gen_save"
    /\ trace' = Append(trace, "GenSave")
    /\ IF env.writeOk
       THEN /\ written' = Some([path |-> [name |-> inputPath.name, ext |-> ".pdf"],
                                pages |-> pages, ops |-> log])
            /\ pc' = "success"
            /\ UNCHANGED err
       ELSE /\ Throw("write failed")
            /\ UNCHANGED written
    /\ UNCHANGED <<env, inputPath, parse, passData, colors, y, pages, log, qrCalls, stepY, console,
                   exitCode>>

----------------------------------------------------------------------------
Next ==
    \/ MainInput
    \/ MainValidate
    \/ ParseOpen
    \/ ParseManifest
    \/ ParseJson
    \/ ParseStyle
    \/ ParseImages
    \/ ParseReturn
    \/ MainReport
    \/ GenSetup
    \/ GenHeader
    \/ GenHeaderFields
    \/ GenStrip
    \/ GenTitle
    \/ GenPrimary
    \/ GenSecondary
    \/ GenAuxiliary
    \/ GenBarcode
    \/ GenBackFields
    \/ GenFooter
    \/ GenSave
    \/ MainSuccess
    \/ MainCatch

----------------------------------------------------------------------------
(* Input families: the sample run varied along one dimension each          *)

StyleNames == {PASS_STYLES[i] : i \in 1..Len(PASS_STYLES)}
WithPass(passJson) == [SampleEnv EXCEPT !.passJson = passJson]
WithTicket(content) == WithPass([samplePassJson EXCEPT !.eventTicket = Some(content)])

(* manifests holding any subset of the five style keys; the content of a   *)
(* key is recognisable by its header field                                 *)
ContentFor(style) ==
    [SampleEventTicket EXCEPT
        !.headerFields = Some(<<Field(style, T("STYLE", <<3390>>), T(style, <<3000>>))>>),
        !.transitType = IF style = "boardingPass" THEN Some("PKTransitTypeAir") ELSE None]
ManifestWithStyles(present) ==
    [k \in DOMAIN samplePassJson |->
        IF k \in StyleNames
        THEN (IF k \in present THEN Some(ContentFor(k)) ELSE None)
        ELSE samplePassJson[k]]
StyleEnvs == {WithPass(ManifestWithStyles(present)) : present \in SUBSET StyleNames}

(* manifests with a coupon and a storeCard key: each section of the       *)
(* coupon is absent, empty or holds two fields; the storeCard holds other  *)
(* fields in every section                                                 *)
SectionNames ==
    {"headerFields", "primaryFields", "secondaryFields", "auxiliaryFields", "backFields"}
TwoFields(owner, section) ==
    <<Field(<<owner, section, 1>>, T("FIRST", <<2945>>), T("one", <<1668>>)),
      Field(<<owner, section, 2>>, T("SECOND", <<4446>>), T("two", <<1556>>))>>
SectionChoices(owner, section) == {None, Some(<<>>), Some(TwoFields(owner, section))}
CouponContents ==
    {[transitType |-> None, headerFields |-> h, primaryFields |-> p, secondaryFields |-> s,
      auxiliaryFields |-> a, backFields |-> b] :
        h \in SectionChoices("coupon", "headerFields"),
        p \in SectionChoices("coupon", "primaryFields"),
        s \in SectionChoices("coupon", "secondaryFields"),
        a \in SectionChoices("coupon", "auxiliaryFields"),
        b \in SectionChoices("coupon", "backFields")}
StoreCardContent ==
    [sec \in SectionNames \cup {"transitType"} |->
        IF sec = "transitType" THEN None ELSE Some(TwoFields("storeCard", sec))]
SectionEnvs ==
    {WithPass([samplePassJson EXCEPT !.eventTicket = None, !.coupon = Some(c),
                                     !.storeCard = Some(StoreCardContent)]) :
        c \in CouponContents}

(* passes whose secondary section holds 1..MaxGridFields fields, each     *)
(* with or without a label, so that the section has several rows           *)
MaxGridFields == 5
GridField(i, labelled) ==
    [Field(<<"grid", i>>, T("LABEL", <<3279>>), T("value", <<2446>>)) EXCEPT
        !.label = IF labelled THEN Some(T("LABEL", <<3279>>)) ELSE None]
GridFields(n, labelledSet) == [i \in 1..n |-> GridField(i, i \in labelledSet)]
GridEnvs ==
    {WithTicket([SampleEventTicket EXCEPT !.secondaryFields = Some(GridFields(n, ls))]) :
        n \in 1..MaxGridFields, ls \in SUBSET (1..MaxGridFields)}

(* manifests with one style key whose sub-object carries a transitType:   *)
(* absent, empty, each known value, an unknown value, and the name of a    *)
(* property every object inherits                                          *)
TransitTypeChoices ==
    {None, Some(""), Some("PKTransitTypeBogus"), Some("constructor")}
    \cup {Some(t) : t \in TransitTypes}
TransitEnvs ==
    {WithPass([samplePassJson EXCEPT
                !.eventTicket = None,
                ![style] = Some([SampleEventTicket EXCEPT !.transitType = t])]) :
        style \in StyleNames, t \in TransitTypeChoices}

(* manifests with every combination of legacy barcode and modern sequence  *)
MaxBarcodes == 2
BarcodeNo(n) ==
    [SampleBarcode EXCEPT !.message = T("modern", <<3000 + n>>), !.bytes = 6 + n,
                          !.altText = IF n = 1 THEN None ELSE Some(T("ALT", <<2000>>))]
LegacyBarcode == [SampleBarcode EXCEPT !.message = T("legacy", <<3000>>), !.bytes = 6]
BarcodeEnvs ==
    {WithPass([samplePassJson EXCEPT !.barcode = legacy, !.barcodes = modern]) :
        legacy \in {None, Some(LegacyBarcode)},
        modern \in {None} \cup {Some([i \in 1..n |-> BarcodeNo(i)]) : n \in 0..MaxBarcodes}}

(* rendering anomalies: formatting hints, undecodable images, dates,       *)
(* barcode messages the encoder rejects, text the fonts cannot encode      *)
HintedField(type, text, currencyCode, dateStyle, timeStyle) ==
    [key |-> "hinted", label |-> Some(T("HINT", <<2500>>)),
     value |-> [type |-> type, text |-> text],
     currencyCode |-> currencyCode, dateStyle |-> dateStyle, timeStyle |-> timeStyle]
CurrencyCodes == {None, Some(<<>>), Some(<<"U", "S", "D">>), Some(<<"E", "U", "R", "O">>)}
DateHints == {None, Some(""), Some("PKDateStyleShort"), Some("PKDateStyleMedium"),
              Some("PKDateStyleLong"), Some("PKDateStyleFull"), Some("PKDateStyleBogus")}
HintedFields ==
    {HintedField("number", T("19.99", <<2502>>), c, None, None) : c \in CurrencyCodes}
    \cup {HintedField("string", t, None, d, ts) :
            t \in {DateT("2024-12-31T19:00:00-05:00", <<12452>>), T("not a date", <<1390, 556, 1946>>)},
            d \in DateHints,
            ts \in {None, Some("PKDateStyleShort"), Some("PKDateStyleBogus")}}
    \cup {HintedField("string", DateT("2024-12-31T19:00:00-05:00", <<12452>>), c, Some("PKDateStyleShort"), None) :
            c \in CurrencyCodes}
CorruptPng(name) == Payload(name, FALSE, 0, 0)
AnomalyEnvs ==
    {WithTicket([SampleEventTicket EXCEPT ![sec] = Some(<<f>>)]) :
        sec \in {"headerFields", "backFields"}, f \in HintedFields}
    \cup {[SampleEnv EXCEPT !.files = [n \in {File(key, "")} |-> CorruptPng(File(key, ""))]] :
            key \in {"logo", "thumbnail", "strip"}}
    \cup {WithPass([samplePassJson EXCEPT !.relevantDate = Some(T("not a date", <<1390, 556, 1946>>))]),
          WithPass([samplePassJson EXCEPT !.description = NoEncT("emoji", <<1000>>)]),
          WithPass([samplePassJson EXCEPT !.barcodes = Some(<<[SampleBarcode EXCEPT !.bytes = 0]>>)]),
          WithPass([samplePassJson EXCEPT !.barcodes = Some(<<[SampleBarcode EXCEPT !.bytes = QR_CAPACITY_M + 1]>>)])}
    \cup {WithPass([samplePassJson EXCEPT
                !.barcode = None, !.barcodes = None,
                !.eventTicket = Some([SampleEventTicket EXCEPT
                    !.headerFields = Some(<<HintedField("number", T("19.99", <<2502>>), c, None, None)>>)])]) :
            c \in CurrencyCodes}

(* archives holding up to MaxEntries of the eighteen image entries *)
MaxEntries == 3
ImageEnvs ==
    {[SampleEnv EXCEPT !.files = FilesOf(names)] :
        names \in {ns \in SUBSET ImageFileNames : Cardinality(ns) <= MaxEntries}}

(* the sample pass with more and more back-field text (every word wide   *)
(* enough to fill a line of its own), with and without a strip image and   *)
(* a barcode                                                               *)
MaxBackFields == 4
MaxBackWords == 12
WIDE_WORD == 20000
BackField(i, nWords) ==
    Field("back", T("Back label", <<2279, 2113>>), T("long text", [w \in 1..nWords |-> WIDE_WORD]))
BackFieldsOf(nFields, nWords) == [i \in 1..nFields |-> BackField(i, nWords)]
StripImages ==
    {Payload(File("strip", ""), TRUE, 1, 1),
     Payload(File("strip", ""), TRUE, 340, 40),
     Payload(File("strip", ""), TRUE, 340, 41),
     Payload(File("strip", ""), TRUE, 340, 42)}
WithStrip(files, strip) ==
    [n \in DOMAIN files \cup {File("strip", "")} |->
        IF n = File("strip", "") THEN strip ELSE files[n]]
ScenarioA(nFields, nWords) ==
    WithTicket([SampleEventTicket EXCEPT !.backFields = Some(BackFieldsOf(nFields, nWords))])
ScenarioAEnvs == {ScenarioA(n, k) : n \in 1..MaxBackFields, k \in 0..MaxBackWords}
LayoutEnvs ==
    ScenarioAEnvs
    \cup {[e EXCEPT !.files = WithStrip(e.files, strip)] : e \in ScenarioAEnvs \cup {SampleEnv}, strip \in StripImages}
    \cup {[e EXCEPT !.passJson = [e.passJson EXCEPT !.barcode = None, !.barcodes = None]] : e \in ScenarioAEnvs}

(* color strings: every string of up to MaxColorLen characters over "#",   *)
(* a hex digit and a non-hex letter as background color, and a list of     *)
(* rgb() and hex spellings in each of the three roles                      *)
MaxColorLen == 6
ColorAlphabet == {"#", "a", "g"}
ShortColorStrings == UNION {[1..n -> ColorAlphabet] : n \in 0..MaxColorLen}
SpelledColorStrings ==
    {Chars_rgb(<<"6", "0">>, <<"6", "5">>, <<"7", "6">>),
     Chars_rgb(<<"2", "5", "5">>, <<"0">>, <<"0", "0", "7">>),
     <<"r", "g", "b", "(", "0", ",", "0", ",", "0", ")">>,
     <<"R", "G", "B", " ", "(", " ", "1", " ", ",", "2", ",", " ", " ", "3", " ", ")">>,
     Chars_rgb(<<"2", "5", "6">>, <<"0">>, <<"0">>),
     Chars_rgb(<<"0">>, <<"3", "0", "0">>, <<"0">>),
     <<"x">> \o Chars_rgb(<<"1">>, <<"2">>, <<"3">>),
     Chars_rgb(<<"1">>, <<"2">>, <<"3">>) \o <<";">>,
     <<"r", "g", "b", "(", "1", ",", "2", ")">>,
     <<"r", "g", "b", "(", "1", ",", "2", ",", "3">>,
     <<"r", "g", "b", "a", "(", "1", ",", "2", ",", "3", ")">>,
     <<"n", "o", "t", "-", "a", "-", "c", "o", "l", "o", "r">>,
     <<"#", "F", "F", "F">>,
     <<"#", "A", "b", "C", "d", "E", "f">>,
     <<"f", "0", "9">>,
     <<"#", "1", "2", "3", "4">>,
     <<"1", "2", "3", "4", "5">>,
     <<"#", "1", "2", "3", "4", "5", "6", "7">>}
ColorEnvs ==
    {WithPass([samplePassJson EXCEPT !.backgroundColor = Some(c)]) : c \in ShortColorStrings}
    \cup {WithPass([samplePassJson EXCEPT ![role] = c]) :
            role \in {"backgroundColor", "foregroundColor", "labelColor"},
            c \in {None} \cup {Some(x) : x \in SpelledColorStrings}}

----------------------------------------------------------------------------
Spec == InitWith(BaseEnvs \cup StyleEnvs \cup SectionEnvs \cup TransitEnvs \cup BarcodeEnvs \cup AnomalyEnvs) /\ [][Next]_vars

SpecImages == InitWith(BaseEnvs \cup ImageEnvs) /\ [][Next]_vars

SpecLayout == InitWith(BaseEnvs \cup LayoutEnvs) /\ [][Next]_vars

SpecColors == InitWith(BaseEnvs \cup ColorEnvs) /\ [][Next]_vars

SpecGrid == InitWith(BaseEnvs \cup GridEnvs) /\ [][Next]_vars

----------------------------------------------------------------------------
(* Claims                                                                  *)

Ran(step) == \E i \in 1..Len(trace) : trace[i] = step
Drew(tag) == \E i \in 1..Len(log) : log[i].tag = tag
StepOf(name) == CHOOSE r \in {stepY[i] : i \in 1..Len(stepY)} : r.step = name
Stepped(name) == \E i \in 1..Len(stepY) : stepY[i].step = name

(* C1: the style parsePkpass sets is the first of boardingPass, coupon,    *)
(* eventTicket, generic, storeCard that the manifest holds as a sub-object *)
(* (the earliest when several are held), and generic when it holds none.   *)
PresentStyleIndexes == {i \in 1..Len(PASS_STYLES) : IsSome(env.passJson[PASS_STYLES[i]])}
ExpectedStyle ==
    IF PresentStyleIndexes = {} THEN "generic" ELSE PASS_STYLES[SetMin(PresentStyleIndexes)]
C1_StyleIsFirstPresent ==
    /\ IsSome(parse.style) => Get(parse.style) = ExpectedStyle
    /\ IsSome(passData) => Pass.style = ExpectedStyle
C1_Witness ==
    /\ IsSome(passData)
    /\ PresentStyleIndexes = {2, 3, 5}
    /\ Pass.style = "coupon"

(* C2: the ParsedPass's barcode is the first element of barcodes when that *)
(* sequence is present and non-empty, else the legacy barcode when         *)
(* present, else absent.                                                   *)
C2_BarcodePriority ==
    IsSome(passData) =>
        LET modern == env.passJson.barcodes
            legacy == env.passJson.barcode
        IN  /\ (IsSome(modern) /\ Len(Get(modern)) > 0) => Pass.barcode = Some(Get(modern)[1])
            /\ (~(IsSome(modern) /\ Len(Get(modern)) > 0) /\ IsSome(legacy)) => Pass.barcode = legacy
            /\ (~(IsSome(modern) /\ Len(Get(modern)) > 0) /\ ~IsSome(legacy)) => Pass.barcode = None
C2_Witness ==
    /\ IsSome(passData)
    /\ IsSome(env.passJson.barcode)
    /\ IsSome(env.passJson.barcodes)
    /\ Len(Get(env.passJson.barcodes)) = 2
    /\ Get(Pass.barcode).message.id = "modern"
    /\ Get(Pass.barcode) # Get(env.passJson.barcode)

(* C3: for each of the six roles extractImages stores the payload of the   *)
(* @3x entry if the archive has it, else of the @2x entry, else of the     *)
(* base entry, and nothing when it has none of the three; only the role's  *)
(* own three entries are read.                                             *)
Has(name) == name \in DOMAIN env.files
ExpectedImage(key) ==
    IF Has(File(key, "@3x")) THEN Some(env.files[File(key, "@3x")])
    ELSE IF Has(File(key, "@2x")) THEN Some(env.files[File(key, "@2x")])
    ELSE IF Has(File(key, "")) THEN Some(env.files[File(key, "")])
    ELSE None
C3_ImageResolutionPriority ==
    IsSome(parse.images) =>
        \A k \in 1..Len(ImageKeys) : Get(parse.images)[ImageKeys[k]] = ExpectedImage(ImageKeys[k])
C3_Witness ==
    /\ IsSome(parse.images)
    /\ DOMAIN env.files = {File("strip", ""), File("strip", "@2x"), File("icon", "")}
    /\ Get(Get(parse.images)["strip"]).src = File("strip", "@2x")
    /\ Get(Get(parse.images)["icon"]).src = File("icon", "")
    /\ Get(parse.images)["logo"] = None

(* C4: without a pass.json entry parsePkpass fails with one error, with a  *)
(* pass.json that is not JSON with another; in both cases, and when the    *)
(* input is no archive, no ParsedPass is returned and style detection,     *)
(* image extraction and barcode selection are never reached.               *)
ParseFails == env.zip # "ok" \/ env.manifest # "ok"
C4_ParseErrorsAreTerminal ==
    ParseFails =>
        /\ passData = None
        /\ parse.style = None /\ parse.images = None
        /\ ~Ran("ParseStyle") /\ ~Ran("ParseImages") /\ ~Ran("ParseReturn")
        /\ (Ran("ParseOpen") /\ pc # "parse_manifest" /\ pc # "parse_json") => IsSome(err)
        /\ (IsSome(err) /\ env.zip = "ok" /\ env.manifest = "absent")
              => err = Some("Invalid .pkpass file: pass.json not found")
        /\ (IsSome(err) /\ env.zip = "ok" /\ env.manifest = "malformed")
              => err = Some("Invalid .pkpass file: pass.json is not valid JSON")
C4_Witness ==
    /\ env.zip = "ok"
    /\ env.manifest = "absent"
    /\ err = Some("Invalid .pkpass file: pass.json not found")
    /\ pc = "exited"

(* C5: generatePdf starts only after parsePkpass has returned; when        *)
(* parsePkpass fails no document is written, the success line is never     *)
(* printed, parsePkpass is not called again and the exit code is 1.        *)
Printed(line) == \E i \in 1..Len(console) : console[i] = line
TimesRan(step) == Cardinality({i \in 1..Len(trace) : trace[i] = step})
C5_GenerateOnlyAfterParse ==
    /\ (Ran("GenSetup") \/ pc = "gen_setup") => (IsSome(passData) /\ Ran("ParseReturn"))
    /\ (IsSome(err) /\ passData = None) =>
        /\ written = None
        /\ ~Printed("Success! PDF saved")
        /\ ~Ran("GenSetup")
        /\ TimesRan("ParseOpen") = 1
        /\ pc \in {"catch", "exited"}
        /\ pc = "exited" => exitCode = Some(1)
C5_Witness ==
    /\ env.manifest = "absent"
    /\ pc = "exited"
    /\ exitCode = Some(1)
    /\ written = None
    /\ IsSome(err)

(* C6: generatePdf fails only when writing the document fails: no color  *)
(* string, image payload, date string, formatting hint or long text makes  *)
(* it fail, and the document is still written.                             *)
C6_RenderFailsOnlyOnWrite ==
    IsSome(passData) =>
        /\ IsSome(err) => (err = Some("write failed") /\ ~env.writeOk)
        /\ (pc = "exited" /\ env.writeOk) => IsSome(written)

(* C7 as stated: with enough back-field text the scenario-A pass yields a  *)
(* 2-page document whose second page is titled "Additional Information".   *)
OnPage(n, tag) == \E i \in 1..Len(log) : log[i].page = n /\ log[i].tag = tag
TitledSecondPage ==
    \E i \in 1..Len(log) :
        /\ log[i].page = 2 /\ log[i].tag = "backTitle"
        /\ log[i].str.id = "Additional Information"
C7_MoreBackTextAddsPage ==
    (env = ScenarioA(MaxBackFields, MaxBackWords) /\ IsSome(written)) =>
        (Get(written).pages = 2 /\ TitledSecondPage)

(* C7 as amended: however much back-field text the scenario-A pass has,    *)
(* the cursor at the back-field step is 206, the document has one page and *)
(* nothing is drawn on a second page; a second page titled "Additional     *)
(* Information" is produced when the cursor is below 150 at that step, as  *)
(* with a strip image 42 or more points high.                              *)
C7_BackTextNeverAddsPage ==
    /\ (env \in ScenarioAEnvs /\ Stepped("GenBackFields")) =>
          /\ StepOf("GenBackFields").before = 206
          /\ pages = 1
          /\ \A i \in 1..Len(log) : log[i].page = 1
    /\ (env \in ScenarioAEnvs /\ pc = "exited") => (IsSome(written) /\ Get(written).pages = 1)
    /\ (IsSome(passData) /\ Stepped("GenBackFields") /\ Len(Pass.backFields) > 0
          /\ StepOf("GenBackFields").before < PAGE_BREAK_Y) =>
          (pages = 2 /\ TitledSecondPage)
C7_Witness ==
    /\ env = ScenarioA(MaxBackFields, MaxBackWords)
    /\ IsSome(written)
    /\ Get(written).pages = 1
    /\ Len(Pass.backFields[1].value.text.words) = MaxBackWords

(* C8: the scenario-A pass gives exactly one page: the cursor at the       *)
(* back-field step is at or above 150, both back fields are drawn in       *)
(* place, the barcode block is drawn and the footer carries the serial     *)
(* number.                                                                 *)
BackFieldDrawnOn(page, idx) ==
    /\ \E i \in 1..Len(log) : log[i].page = page /\ log[i].tag = "backLabel" /\ log[i].idx = idx
    /\ \E i \in 1..Len(log) : log[i].page = page /\ log[i].tag = "backLine" /\ log[i].idx = idx
BarcodeBlockDrawn == Drew("barcodeSeparator") /\ Drew("qr") /\ Drew("barcodeFormat")
C8_ScenarioAOnePage ==
    env = SampleEnv =>
        /\ Stepped("GenBackFields") =>
              /\ StepOf("GenBackFields").before >= PAGE_BREAK_Y
              /\ ~StepOf("GenBackFields").threw
              /\ BackFieldDrawnOn(1, 1) /\ BackFieldDrawnOn(1, 2)
              /\ BarcodeBlockDrawn /\ Drew("barcodeAltText")
        /\ pc = "exited" =>
              /\ exitCode = Some(0)
              /\ IsSome(written)
              /\ Get(written).pages = 1
              /\ \A i \in 1..Len(Get(written).ops) : Get(written).ops[i].page = 1
              /\ \E i \in 1..Len(Get(written).ops) :
                    /\ Get(written).ops[i].tag = "serial"
                    /\ Get(written).ops[i].str.id = env.passJson.serialNumber.id
                    /\ Get(written).ops[i].y = FOOTER_Y
C8_Witness ==
    /\ env = SampleEnv
    /\ pc = "exited"
    /\ IsSome(written)
    /\ Len(Pass.headerFields) = 1 /\ Len(Pass.primaryFields) = 1
    /\ Len(Pass.secondaryFields) = 2 /\ Len(Pass.auxiliaryFields) = 3
    /\ Len(Pass.backFields) = 2
    /\ Pass.style = "eventTicket"
    /\ Pass.images["strip"] = None

(* C9: a manifest with neither barcode nor barcodes gives a ParsedPass     *)
(* without barcode, and for it generatePdf draws nothing of the barcode    *)
(* block, never calls the encoder, leaves the cursor where it was across   *)
(* the barcode step and completes without error; the barcode block is      *)
(* drawn by the barcode step exactly when the ParsedPass has a barcode.    *)
NoBarcodeEntries == ~IsSome(env.passJson.barcode) /\ ~IsSome(env.passJson.barcodes)
BarcodeTags == {"barcodeSeparator", "qr", "barcodeFormat", "barcodeAltText"}
DrewBarcodeOp == \E i \in 1..Len(log) : log[i].tag \in BarcodeTags
C9_NoBarcodeNoBlock ==
    /\ (NoBarcodeEntries /\ IsSome(passData)) =>
          /\ Pass.barcode = None
          /\ ~DrewBarcodeOp
          /\ qrCalls = 0
          /\ Stepped("GenBarcode") =>
                StepOf("GenBarcode").before = StepOf("GenBarcode").after
          /\ IsSome(err) => err = Some("write failed")
          /\ (pc = "exited" /\ env.writeOk) => (exitCode = Some(0) /\ IsSome(written))
    /\ Stepped("GenBarcode") => (BarcodeBlockDrawn <=> IsSome(Pass.barcode))

(* C10: parseColor computes a color from the string only for rgb(r, g, b)  *)
(* with components in 0..255 or a hex triplet or sextet; for every other   *)
(* string and for an absent value it returns the role's fallback, and it   *)
(* never raises.                                                           *)
CountOf(s, c) == Cardinality({i \in 1..Len(s) : s[i] = c})
IsRgbSpelling(s) ==
    /\ IsSome(RgbMatchAt(s, 1))
    /\ CharAt(s, Len(s)) = ")"
    /\ CountOf(s, ")") = 1
    /\ \A k \in 1..3 : parseInt(Get(RgbMatchAt(s, 1))[k], 10) <= 255
HexBody(s) == IF CharAt(s, 1) = "#" THEN Tail(s) ELSE s
IsHexSpelling(s) ==
    /\ Len(HexBody(s)) \in {3, 6}
    /\ \A i \in 1..Len(HexBody(s)) : HexBody(s)[i] \in HexDigits
ColorOfSpelling(s) ==
    IF IsRgbSpelling(s)
    THEN LET m == Get(RgbMatchAt(s, 1)) IN
         [type |-> "RGB", red |-> 20 * parseInt(m[1], 10), green |-> 20 * parseInt(m[2], 10),
          blue |-> 20 * parseInt(m[3], 10)]
    ELSE LET h == HexBody(s)
             d(i) == IF Len(h) = 3 THEN 17 * DigitVal(h[i])
                     ELSE 16 * DigitVal(h[2 * i - 1]) + DigitVal(h[2 * i])
         IN  [type |-> "RGB", red |-> 20 * d(1), green |-> 20 * d(2), blue |-> 20 * d(3)]
ClaimedColor(optStr, fallback) ==
    IF IsSome(optStr) /\ (IsRgbSpelling(Get(optStr)) \/ IsHexSpelling(Get(optStr)))
    THEN ColorOfSpelling(Get(optStr))
    ELSE fallback
C10_ColorGrammar ==
    Ran("GenSetup") =>
        /\ err = None \/ ~StepOf("GenSetup").threw
        /\ IsSome(colors)
        /\ Get(colors).bg = ClaimedColor(Pass.backgroundColor, DEFAULT_BG_COLOR)
        /\ Get(colors).fg = ClaimedColor(Pass.foregroundColor, DEFAULT_FG_COLOR)
        /\ Get(colors).label = ClaimedColor(Pass.labelColor, DEFAULT_LABEL_COLOR)

(* C11: a field with a string value is rendered with its raw string unless *)
(* it carries a recognized date-style hint (short, medium, long, full) and *)
(* the string parses as a date; so with no hint, with an unrecognized hint *)
(* or with an unparseable string the raw string is drawn, and rendering    *)
(* the field raises nothing.                                               *)
RecognizedDateStyles ==
    {"PKDateStyleShort", "PKDateStyleMedium", "PKDateStyleLong", "PKDateStyleFull"}
RecognizedDateStyle(hint) == IsSome(hint) /\ Get(hint) \in RecognizedDateStyles
FieldsOf(sec) ==
    CASE sec = "header" -> Pass.headerFields
      [] sec = "primary" -> Pass.primaryFields
      [] sec = "secondary" -> Pass.secondaryFields
      [] sec = "auxiliary" -> Pass.auxiliaryFields
      [] OTHER -> Pass.backFields
C11_RawUnlessRecognizedDate ==
    IsSome(passData) =>
        \A i \in 1..Len(log) :
            (log[i].tag = "fieldValue" /\ FieldsOf(log[i].sec)[log[i].idx].value.type = "string") =>
                LET f == FieldsOf(log[i].sec)[log[i].idx] IN
                IF RecognizedDateStyle(f.dateStyle) /\ f.value.text.date
                THEN log[i].str.kind = "date"
                ELSE log[i].str = Raw(f.value.text)

DetectedContent == env.passJson[Pass.style]
ManifestSection(sec) ==
    IF IsSome(DetectedContent) /\ IsSome(Get(DetectedContent)[sec])
    THEN Get(Get(DetectedContent)[sec])
    ELSE <<>>
FieldKeys(fields) == {fields[i].key : i \in 1..Len(fields)}
C13_SectionsOfDetectedStyle ==
    IsSome(passData) =>
        /\ \A sec \in SectionNames : Pass[sec] = ManifestSection(sec)
        /\ env \in SectionEnvs =>
              \A sec \in SectionNames :
                  FieldKeys(Pass[sec]) \cap FieldKeys(Get(Get(env.passJson.storeCard)[sec])) = {}
C13_Witness ==
    /\ IsSome(passData)
    /\ env \in SectionEnvs
    /\ Pass.style = "coupon"
    /\ IsSome(env.passJson.storeCard)
    /\ ~IsSome(Get(env.passJson.coupon).headerFields) /\ Pass.headerFields = <<>>
    /\ Get(env.passJson.coupon).primaryFields = Some(<<>>) /\ Pass.primaryFields = <<>>
    /\ Len(Pass.secondaryFields) = 2
    /\ Pass.secondaryFields[1].key = <<"coupon", "secondaryFields", 1>>
    /\ Pass.secondaryFields[2].key = <<"coupon", "secondaryFields", 2>>

(* C14 as stated: the cursor y starts at PAGE_HEIGHT - MARGIN and no step  *)
(* of generatePdf ever leaves it higher than it found it.                  *)
CursorStartsAtTop ==
    Len(stepY) > 0 =>
        /\ stepY[1].step = "GenSetup"
        /\ stepY[1].after = PAGE_HEIGHT - MARGIN
        /\ \A i \in 2..Len(stepY) : stepY[i].before = stepY[i - 1].after
C14_CursorNeverIncreases ==
    /\ CursorStartsAtTop
    /\ \A i \in 2..Len(stepY) : stepY[i].after <= stepY[i].before

(* C14 as amended: the cursor y starts at PAGE_HEIGHT - MARGIN and every   *)
(* step leaves it at or below where it found it, except the back-field     *)
(* step when it starts a second page (back fields present and y below      *)
(* 150): there y is set again to PAGE_HEIGHT - MARGIN and only decreases   *)
(* from that value down the second page.                                   *)
StartsSecondPage(s) ==
    /\ s.step = "GenBackFields"
    /\ Len(Pass.backFields) > 0
    /\ s.before < PAGE_BREAK_Y
SecondPageOps == SelectSeq(log, LAMBDA o : o.page = 2 /\ o.op = "text")
C14_CursorResetOnlyOnNewPage ==
    /\ CursorStartsAtTop
    /\ \A i \in 2..Len(stepY) :
          \/ stepY[i].after <= stepY[i].before
          \/ /\ StartsSecondPage(stepY[i])
             /\ stepY[i].after <= PAGE_HEIGHT - MARGIN - 25
    /\ \A i \in 1..Len(SecondPageOps) :
          /\ SecondPageOps[i].y <= PAGE_HEIGHT - MARGIN
          /\ i > 1 => SecondPageOps[i].y <= SecondPageOps[i - 1].y
C14_Witness ==
    /\ Stepped("GenBackFields")
    /\ StartsSecondPage(StepOf("GenBackFields"))
    /\ StepOf("GenBackFields").after > StepOf("GenBackFields").before
    /\ pages = 2
    /\ Len(SecondPageOps) > 2

(* C15: in drawFieldSection field i is drawn in column i mod columns at    *)
(* x = MARGIN + column * (CONTENT_WIDTH / columns), the cursor moves down  *)
(* only after the field filling the last column of a row or after the last *)
(* field, and every such move is by one and the same amount for all rows   *)
(* of the section, whichever fields of the row have a label.  Stated for   *)
(* the secondary section (three columns at most, label size 8).            *)
SecondaryColumns == MinOf(Len(Pass.secondaryFields), 3)
SecondaryValueOps == SelectSeq(log, LAMBDA o : o.tag = "fieldValue" /\ o.sec = "secondary")
CursorAt(i) ==
    SecondaryValueOps[i].y + (IF Truthy(Pass.secondaryFields[i].label) THEN 8 + 6 ELSE 0)
RowOf(i) == (i - 1) \div SecondaryColumns
SecondaryRows == RowOf(Len(Pass.secondaryFields)) + 1
C15_UniformGrid ==
    (IsSome(passData) /\ Stepped("GenSecondary") /\ Len(Pass.secondaryFields) > 0) =>
        LET s == StepOf("GenSecondary")
            n == Len(Pass.secondaryFields)
        IN  /\ Len(SecondaryValueOps) = n
            /\ \A i \in 1..n :
                  SecondaryValueOps[i].x =
                      <<MARGIN * SecondaryColumns + ((i - 1) % SecondaryColumns) * CONTENT_WIDTH,
                        SecondaryColumns>>
            /\ \E d \in 0..(PAGE_HEIGHT) :
                  /\ \A i \in 1..n : CursorAt(i) = s.before - RowOf(i) * d
                  /\ s.after = s.before - SecondaryRows * d

(* C16: generatePdf makes one page or two, never more; it adds the second  *)
(* page exactly when the pass has a back field and the cursor y is below   *)
(* 150 when the back-field step is reached, and then every back field it   *)
(* draws is drawn on the second page; otherwise the back fields are drawn  *)
(* in place on the first page and the document has one page.               *)
BackTags == {"backTitle", "backLabel", "backLine"}
BackLabelOn(page, idx) ==
    \E i \in 1..Len(log) : log[i].page = page /\ log[i].tag = "backLabel" /\ log[i].idx = idx
BackOpsOn(page) == \A i \in 1..Len(log) : log[i].tag \in BackTags => log[i].page = page
BackFieldOps(idx) ==
    SelectSeq(log, LAMBDA o : o.tag \in {"backLabel", "backLine"} /\ o.idx = idx)
DrawsAnything(idx) == Len(BackFieldOps(idx)) > 0
HasSomethingToDraw(field) == Truthy(field.label) \/ field.value.text.words # <<>>
(* the cursor at the start of the field after idx, from the last call made *)
(* for idx: one label or line step and the gap between fields              *)
CursorAfter(idx) ==
    LET last == BackFieldOps(idx)[Len(BackFieldOps(idx))]
        step == IF last.tag = "backLabel"
                THEN (IF last.page = 2 THEN 12 ELSE 11)
                ELSE (IF last.page = 2 THEN 14 ELSE 12)
        gap == IF last.page = 2 THEN 10 ELSE 8
    IN  last.y - step - gap
C18_FooterDateOnlyWhenParsed ==
    (IsSome(passData) /\ Stepped("GenFooter")) =>
        /\ ~StepOf("GenFooter").threw
        /\ \E i \in 1..Len(log) :
              log[i].tag = "serial" /\ log[i].page = 1 /\ log[i].y = FOOTER_Y
        /\ Drew("relevantDate") <=>
              (Truthy(Pass.relevantDate) /\ Get(Pass.relevantDate).date)

(* C19: the style label drawn is the transit name (Flight, Ferry, Bus,     *)
(* Transit, Train) exactly when the style is boardingPass and its transit  *)
(* type is one of the five known values, and the style's own label in      *)
(* every other case: parsePkpass leaves transitType unset when the style   *)
(* is not boardingPass, and an unrecognized transit type falls back to the *)
(* style's label.                                                          *)
ManifestTransitType ==
    IF IsSome(env.passJson.boardingPass) THEN Get(env.passJson.boardingPass).transitType
    ELSE None
OwnLabel(style) ==
    CASE style = "boardingPass" -> "Boarding Pass"
      [] style = "coupon" -> "Coupon"
      [] style = "eventTicket" -> "Event Ticket"
      [] style = "generic" -> "Pass"
      [] style = "storeCard" -> "Store Card"
TransitName(t) ==
    CASE t = "PKTransitTypeAir" -> "Flight"
      [] t = "PKTransitTypeBoat" -> "Ferry"
      [] t = "PKTransitTypeBus" -> "Bus"
      [] t = "PKTransitTypeGeneric" -> "Transit"
      [] t = "PKTransitTypeTrain" -> "Train"
ClaimedStyleLabel ==
    IF Pass.style = "boardingPass" /\ IsSome(ManifestTransitType)
          /\ Get(ManifestTransitType) \in TransitTypes
    THEN TransitName(Get(ManifestTransitType))
    ELSE OwnLabel(Pass.style)
C19_StyleLabel ==
    IsSome(passData) =>
        /\ Pass.style # "boardingPass" => Pass.transitType = None
        /\ (Stepped("GenTitle") /\ Drew("description")) =>
              \E i \in 1..Len(log) :
                  log[i].tag = "styleLabel" /\ log[i].str.id = ClaimedStyleLabel

====
